---- MODULE Spec2Model ----
\* A model of tong's per-request Context (context.go): the pooled context
\* object, its Reset, the response writers (WriteContentType, Blob, Json,
\* String, Redirect) and the parameter readers (QueryInt, PostInt, FormParams).
\*
\* Strings that the code inspects (parameter values, the request's
\* Content-Type) are sequences of characters/tokens, so that parsing and
\* prefix tests are computed.  Bytes are one-character strings.
EXTENDS Integers, Sequences, FiniteSets, TLC

\* the fields of the records below, numbered in the order every record lists them
FieldOrder ==
    [ id |-> 1, query |-> 2, post |-> 3, bodyOK |-> 4, name |-> 5, f |-> 6,
      parser |-> 7, key |-> 8, code |-> 9, contentType |-> 10, Form |-> 11,
      PostForm |-> 12, MultipartForm |-> 13, Writer |-> 14, Status |-> 15,
      Committed |-> 16, Header |-> 17, Body |-> 18, value |-> 19,
      indent |-> 20, data |-> 21, werr |-> 22, url |-> 23, r |-> 24,
      w |-> 25, path |-> 26, handler |-> 27, logger |-> 28, cache |-> 29,
      defaultValue |-> 30, maxMemory |-> 31, form |-> 32, err |-> 33,
      n |-> 34, bytes |-> 35, req |-> 36, nil |-> 37, values |-> 38,
      k |-> 39, v |-> 40, request |-> 41, response |-> 42,
      requestCache |-> 43, firstCT |-> 44, conn |-> 45, op |-> 46 ]

VARIABLES request, response, path, handler, logger, requestCache,
          op, ret, calls, pre, firstCT, routed, nops, conn

vars == <<request, response, path, handler, logger, requestCache,
          op, ret, calls, pre, firstCT, routed, nops, conn>>

ctxVars == <<request, path, handler, logger, requestCache, routed, conn>>

\* ------------------------------------------------------------------ bounds

\* most calls a handler makes on the response of one request
MaxOps == 2
\* longest parameter value, in characters
MaxLen == 2
\* most key=value pairs in a query string or a POST body
MaxPairs == 1

\* --------------------------------------------------------------- constants

StatusOK == 200
StatusMultipleChoices == 300
StatusPermanentRedirect == 308

HeaderContentType == "Content-Type"
HeaderLocation == "Location"
MIMEApplicationJSONCharsetUTF8 == "application/json; charset=UTF-8"
MIMETextPlainCharsetUTF8 == "text/plain; charset=UTF-8"
MIMEMultipartPOSTForm == <<"multipart", "/", "form-data">>

NilHandler == "nil"
NotFoundHandler == "NotFoundHandler"
NilValue == "nil"

\* 32 << 20
defaultMemory == 32 * (2 ^ 20)

\* ------------------------------------------------------------ input domains

\* status codes handed to Blob, String and Json
WriterCodes == {200, 404}
\* codes handed to Redirect: both edges of [300,308] from inside and outside
RedirectCodes == {299, 300, 308, 309}
URLs == {"/a", "/b"}
ContentTypeArgs == {"", "text/html", "application/xml"}
BlobContentTypes == {"", "text/html"}
HandlerContentTypes == {"image/png"}
BlobData == {<<>>, <<"x", "y">>}
StringArgs == {"xy"}
JsonArgs == {"arr", "chan"}
IndentArgs == {<<>>, <<" ">>}
RoutePaths == {"/users"}
RouteHandlers == {"usersHandler"}

\* what the connection's Write returns: "nil" while it is healthy, else the
\* error it failed with
ConnErrors == {"broken pipe"}

\* ----------------------------------------------------- strings and parsing

Chars == {"7", "-", "a"}
Digits == <<"0", "1", "2", "3", "4", "5", "6", "7", "8", "9">>

RECURSIVE StrsUpTo(_)
StrsUpTo(n) ==
    IF n = 0 THEN {<<>>}
    ELSE LET shorter == StrsUpTo(n - 1)
         IN  shorter \cup {Append(s, c) : s \in {t \in shorter : Len(t) = n - 1}, c \in Chars}

ParamValues == StrsUpTo(MaxLen)
ParamKeys == {"n", "m"}
ParamPair == [k : {"n"}, v : ParamValues]

RECURSIVE ListsUpTo(_)
ListsUpTo(n) ==
    IF n = 0 THEN {<<>>}
    ELSE LET shorter == ListsUpTo(n - 1)
         IN  shorter \cup {Append(l, p) : l \in {t \in shorter : Len(t) = n - 1}, p \in ParamPair}

ParamLists == ListsUpTo(MaxPairs)
Defaults == {0, 5}

IsDigit(c) == \E i \in 1..Len(Digits) : Digits[i] = c
DigitValue(c) == (CHOOSE i \in 1..Len(Digits) : Digits[i] = c) - 1

RECURSIVE Decimal(_)
Decimal(s) == IF s = <<>> THEN 0 ELSE 10 * Decimal(SubSeq(s, 1, Len(s) - 1)) + DigitValue(s[Len(s)])

\* strconv.Atoi on the lengths modelled (no value here leaves the int range):
\* an optional sign, then one or more decimal digits
Atoi(s) ==
    LET signed == s # <<>> /\ s[1] \in {"+", "-"}
        digits == IF signed THEN Tail(s) ELSE s
    IN  IF digits = <<>> \/ \E i \in 1..Len(digits) : ~IsDigit(digits[i])
        THEN [err |-> "invalid syntax", n |-> 0]
        ELSE [err |-> "nil", n |-> IF signed /\ s[1] = "-" THEN 0 - Decimal(digits) ELSE Decimal(digits)]

\* url.Values.Get: the first value stored under key, "" when there is none
RECURSIVE ValuesGet(_, _)
ValuesGet(pairs, key) ==
    IF pairs = <<>> THEN <<>>
    ELSE IF Head(pairs).k = key THEN Head(pairs).v
    ELSE ValuesGet(Tail(pairs), key)

HasPrefix(s, prefix) == Len(s) >= Len(prefix) /\ SubSeq(s, 1, Len(prefix)) = prefix

\* ------------------------------------------------------------- the request

NilRequest == [id |-> "nil"]
NilForm == [nil |-> TRUE, values |-> <<>>]

RequestContentTypes ==
    { <<>>,
      <<"application", "/", "x-www-form-urlencoded">>,
      <<"multipart", "/", "form-data", ";", "boundary=x">>,
      <<"multipart", "/", "form-data">>,
      <<"multipart", "/", "mixed", ";", "boundary=x">> }

MkRequest(id, query, post, bodyOK, ctype) ==
    [id |-> id, query |-> query, post |-> post, bodyOK |-> bodyOK,
     contentType |-> ctype, Form |-> NilForm, PostForm |-> NilForm,
     MultipartForm |-> FALSE]

\* what Reset is called with: the request, writer, logger and cache of one
\* incoming request
ResetArgs ==
    { [r |-> MkRequest("A", <<[k |-> "n", v |-> <<"7">>]>>, <<>>, TRUE, <<>>),
       w |-> "wA", logger |-> "logA", cache |-> "cacheA"],
      [r |-> MkRequest("B", <<>>, <<[k |-> "m", v |-> <<"a">>]>>, TRUE,
                       <<"application", "/", "x-www-form-urlencoded">>),
       w |-> "wB", logger |-> "logB", cache |-> "cacheB"] }

\* every request the parameter readers are tried on: the parameters travel in
\* the query string, in a well-formed body or in a malformed body
ReaderRequests ==
    { MkRequest("A", IF shape = "query" THEN ps ELSE <<>>,
                     IF shape = "query" THEN <<>> ELSE ps,
                     shape # "badbody", ctype) :
        ps \in ParamLists, shape \in {"query", "body", "badbody"},
        ctype \in RequestContentTypes }

NoHeader == [h \in {HeaderContentType, HeaderLocation} |-> ""]


\* ------------------------------------------------------------ the response
\* Response (the wrapper of http.ResponseWriter) after its documentation:
\* it tracks whether the status line has been written and the status code.

ZeroResponse ==
    [Writer |-> NilValue, Status |-> 0, Committed |-> FALSE,
     Header |-> NoHeader, Body |-> <<>>]

\* Response.Reset(w): wrap the new request's writer, nothing written yet
ResponseReset(w) ==
    [Writer |-> w, Status |-> 0, Committed |-> FALSE,
     Header |-> NoHeader, Body |-> <<>>]

HeaderGet(resp, key) == resp.Header[key]
HeaderSet(resp, key, value) == [resp EXCEPT !.Header[key] = value]

\* Response.WriteHeader(code): the status line is written once
ResponseWriteHeader(resp, code) ==
    IF resp.Committed THEN resp
    ELSE [resp EXCEPT !.Status = code, !.Committed = TRUE]

\* Response.Write(data): the first write commits the status recorded so far;
\* werr is what the connection's Write returns
ResponseWrite(resp, data, werr) ==
    LET r1 == IF resp.Committed THEN resp
              ELSE ResponseWriteHeader(resp, IF resp.Status = 0 THEN StatusOK ELSE resp.Status)
    IN  IF werr = "nil" THEN [r1 EXCEPT !.Body = @ \o data] ELSE r1

\* ------------------------------------------------------------ JSON encoding

\* json.Marshal of the values modelled, compact or indented with indent
JsonMarshal(value, indent) ==
    CASE value = "arr" ->
            [err |-> "nil",
             bytes |-> IF indent = <<>> THEN <<"[", "1", "]">>
                       ELSE <<"[", "\n">> \o indent \o <<"1", "\n", "]">>]
      [] OTHER -> [err |-> "json: unsupported type", bytes |-> <<>>]

\* Encoder.Encode: the value's JSON followed by a newline, in one Write
EncodeBytes(value, indent) == JsonMarshal(value, indent).bytes \o <<"\n">>

\* []byte(value) for the strings modelled
StringBytes(value) ==
    CASE value = "" -> <<>>
      [] value = "y" -> <<"y">>
      [] value = "xy" -> <<"x", "y">>

\* --------------------------------------- the writers as sequences of calls

\* WriteContentType without its guard
WriteContentTypeAlways(resp, value) == HeaderSet(resp, HeaderContentType, value)

WriteContentTypeOn(resp, value) ==
    IF HeaderGet(resp, HeaderContentType) = ""
    THEN HeaderSet(resp, HeaderContentType, value)
    ELSE resp

\* one call made by a method of Context on its response
Step(resp, call) ==
    CASE call.f = "WriteHeader" -> ResponseWriteHeader(resp, call.code)
      [] call.f = "WriteContentType" -> WriteContentTypeOn(resp, call.value)
      [] call.f = "Header.Set" -> HeaderSet(resp, call.key, call.value)
      [] call.f = "Status=" -> [resp EXCEPT !.Status = call.code]
      [] call.f = "Write" -> ResponseWrite(resp, call.data, call.werr)
      [] call.f = "Encode" ->
            IF JsonMarshal(call.value, call.indent).err # "nil" THEN resp
            ELSE ResponseWrite(resp, EncodeBytes(call.value, call.indent), call.werr)

RECURSIVE Run(_, _)
Run(resp, cs) == IF cs = <<>> THEN resp ELSE Run(Step(resp, Head(cs)), Tail(cs))

\* Redirect with the upper edge of the range off by one
RedirectCallsOffByOne(code, url) ==
    IF code < StatusMultipleChoices \/ code >= StatusPermanentRedirect
    THEN <<>>
    ELSE << [f |-> "Header.Set", key |-> HeaderLocation, value |-> url],
            [f |-> "WriteHeader", code |-> code] >>

RedirectCalls(code, url) ==
    IF code < StatusMultipleChoices \/ code > StatusPermanentRedirect
    THEN <<>>
    ELSE << [f |-> "Header.Set", key |-> HeaderLocation, value |-> url],
            [f |-> "WriteHeader", code |-> code] >>

RedirectErr(code) ==
    IF code < StatusMultipleChoices \/ code > StatusPermanentRedirect
    THEN "redirect code error"
    ELSE "nil"

\* Blob setting the Content-Type before the status line
BlobCallsTypeFirst(code, contentType, data, werr) ==
    << [f |-> "WriteContentType", value |-> contentType],
       [f |-> "WriteHeader", code |-> code],
       [f |-> "Write", data |-> data, werr |-> werr] >>

BlobCalls(code, contentType, data, werr) ==
    << [f |-> "WriteHeader", code |-> code],
       [f |-> "WriteContentType", value |-> contentType],
       [f |-> "Write", data |-> data, werr |-> werr] >>

\* Blob dropping the error of the write
BlobErrSwallowed(werr) == "nil"

BlobErr(werr) == werr

\* Json writing the status line the way Blob does
JsonCallsWriteHeader(code, value, indent, werr) ==
    << [f |-> "WriteHeader", code |-> code],
       [f |-> "WriteContentType", value |-> MIMEApplicationJSONCharsetUTF8],
       [f |-> "Encode", value |-> value, indent |-> indent, werr |-> werr] >>

JsonCalls(code, value, indent, werr) ==
    << [f |-> "WriteContentType", value |-> MIMEApplicationJSONCharsetUTF8],
       [f |-> "Status=", code |-> code],
       [f |-> "Encode", value |-> value, indent |-> indent, werr |-> werr] >>

JsonErr(value, indent, werr) ==
    IF JsonMarshal(value, indent).err # "nil" THEN JsonMarshal(value, indent).err ELSE werr

StringCalls(code, value, werr) ==
    BlobCalls(code, MIMETextPlainCharsetUTF8, StringBytes(value), werr)

\* bytes the calls hand to the connection
RECURSIVE Payload(_)
Payload(cs) ==
    IF cs = <<>> THEN <<>>
    ELSE LET c == Head(cs)
         IN  (CASE c.f = "Write" -> c.data
                [] c.f = "Encode" -> IF JsonMarshal(c.value, c.indent).err = "nil"
                                     THEN EncodeBytes(c.value, c.indent) ELSE <<>>
                [] OTHER -> <<>>) \o Payload(Tail(cs))

\* the first non-empty Content-Type the calls supply, "" when none does
RECURSIVE Supplied(_)
Supplied(cs) ==
    IF cs = <<>> THEN ""
    ELSE IF Head(cs).f = "WriteContentType" /\ Head(cs).value # "" THEN Head(cs).value
    ELSE Supplied(Tail(cs))

\* --------------------------------------------------------------- the state

Snapshot ==
    [path |-> path, handler |-> handler, logger |-> logger,
     request |-> request, response |-> response, requestCache |-> requestCache,
     firstCT |-> firstCT, conn |-> conn, op |-> op]

Bound == request.id # "nil"

\* a Context of the pool before its first Reset: the zero value with a Response
Init ==
    /\ request = NilRequest
    /\ response = ZeroResponse
    /\ path = ""
    /\ handler = NilHandler
    /\ logger = NilValue
    /\ requestCache = NilValue
    /\ op = [name |-> "new"]
    /\ ret = "nil"
    /\ calls = <<>>
    /\ pre = [request |-> NilRequest]
    /\ firstCT = ""
    /\ routed = FALSE
    /\ nops = 0
    /\ conn = "nil"

\* Reset leaving the route of the previous request in place
ResetFieldsKeepRoute(r, w, lg, cache) ==
    /\ request' = r
    /\ response' = ResponseReset(w)
    /\ UNCHANGED <<path, handler>>
    /\ logger' = lg
    /\ requestCache' = cache

\* Reset that forgets the handler only
ResetFieldsKeepHandler(r, w, lg, cache) ==
    /\ request' = r
    /\ response' = ResponseReset(w)
    /\ path' = ""
    /\ UNCHANGED handler
    /\ logger' = lg
    /\ requestCache' = cache

ResetFields(r, w, lg, cache) ==
    /\ request' = r
    /\ response' = ResponseReset(w)
    /\ path' = ""
    /\ handler' = NotFoundHandler
    /\ logger' = lg
    /\ requestCache' = cache

Reset ==
    \E a \in ResetArgs :
        /\ ResetFields(a.r, a.w, a.logger, a.cache)
        /\ op' = [name |-> "Reset", r |-> a.r, w |-> a.w, logger |-> a.logger, cache |-> a.cache]
        /\ ret' = "nil"
        /\ calls' = <<>>
        /\ pre' = Snapshot
        /\ firstCT' = ""
        /\ routed' = FALSE
        /\ nops' = 0
        /\ conn' = "nil"

\* the client goes away: from now on the connection's Write fails
ConnectionFails ==
    \E e \in ConnErrors :
        /\ Bound
        /\ conn = "nil"
        /\ conn' = e
        /\ UNCHANGED <<request, response, path, handler, logger, requestCache,
                       op, ret, calls, pre, firstCT, routed, nops>>

\* the router, between Reset and the handler: c.path and c.handler
SetRoute ==
    \E p \in RoutePaths, h \in RouteHandlers :
        /\ Bound
        /\ nops = 0
        /\ ~routed
        /\ path' = p
        /\ handler' = h
        /\ routed' = TRUE
        /\ op' = [name |-> "SetRoute", path |-> p, handler |-> h]
        /\ ret' = "nil"
        /\ calls' = <<>>
        /\ pre' = Snapshot
        /\ UNCHANGED <<request, response, logger, requestCache, firstCT, nops, conn>>

\* a writer method: its calls run on the response, err is returned
Writes(o, cs, err) ==
    /\ Bound
    /\ nops < MaxOps
    /\ nops' = nops + 1
    /\ response' = Run(response, cs)
    /\ op' = o
    /\ ret' = err
    /\ calls' = cs
    /\ pre' = Snapshot
    /\ firstCT' = IF firstCT = "" THEN Supplied(cs) ELSE firstCT
    /\ UNCHANGED ctxVars

\* the handler sets the header itself: c.Response().Header().Set(...)
HandlerSetsContentType ==
    \E v \in HandlerContentTypes :
        /\ Bound
        /\ nops < MaxOps
        /\ nops' = nops + 1
        /\ response' = HeaderSet(response, HeaderContentType, v)
        /\ op' = [name |-> "Header.Set", value |-> v]
        /\ ret' = "nil"
        /\ calls' = <<>>
        /\ pre' = Snapshot
        /\ firstCT' = v
        /\ UNCHANGED ctxVars

WriteContentType ==
    \E v \in ContentTypeArgs :
        Writes([name |-> "WriteContentType", value |-> v],
               <<[f |-> "WriteContentType", value |-> v]>>, "nil")

Redirect ==
    \E code \in RedirectCodes, url \in URLs :
        Writes([name |-> "Redirect", code |-> code, url |-> url],
               RedirectCalls(code, url), RedirectErr(code))

Blob ==
    \E code \in WriterCodes, ct \in BlobContentTypes, data \in BlobData :
        Writes([name |-> "Blob", code |-> code, contentType |-> ct, data |-> data],
               BlobCalls(code, ct, data, conn), BlobErr(conn))

String ==
    \E code \in WriterCodes, value \in StringArgs :
        Writes([name |-> "String", code |-> code, value |-> value],
               StringCalls(code, value, conn), BlobErr(conn))

Json ==
    \E code \in WriterCodes, value \in JsonArgs, indent \in IndentArgs :
        Writes([name |-> "Json", code |-> code, value |-> value, indent |-> indent],
               JsonCalls(code, value, indent, conn), JsonErr(value, indent, conn))

Next ==
    \/ Reset
    \/ ConnectionFails
    \/ SetRoute
    \/ HandlerSetsContentType
    \/ WriteContentType
    \/ Redirect
    \/ Blob
    \/ String
    \/ Json

Spec == Init /\ [][Next]_vars

\* ------------------------------------------------------ the request's forms

MIMEPOSTForm == <<"application", "/", "x-www-form-urlencoded">>

HasBoundary(ctype) == \E i \in 1..Len(ctype) : ctype[i] = "boundary=x"

\* http.Request.ParseForm: fills PostForm from a URL-encoded body and Form
\* from PostForm and the query; a parsed request is not parsed again
ParseFormOn(req) ==
    LET urlenc == HasPrefix(req.contentType, MIMEPOSTForm)
        perr == IF req.PostForm.nil /\ urlenc /\ ~req.bodyOK THEN "ParseError" ELSE "nil"
        pf == IF ~req.PostForm.nil THEN req.PostForm
              ELSE [nil |-> FALSE, values |-> IF urlenc /\ req.bodyOK THEN req.post ELSE <<>>]
        form == IF ~req.Form.nil THEN req.Form
                ELSE [nil |-> FALSE, values |-> pf.values \o req.query]
    IN  [err |-> perr, req |-> [req EXCEPT !.PostForm = pf, !.Form = form]]

\* http.Request.ParseMultipartForm(maxMemory): ParseForm, then the multipart
\* body; maxMemory only decides what is kept in memory
ParseMultipartFormOn(req, maxMemory) ==
    LET first == IF req.Form.nil THEN ParseFormOn(req) ELSE [err |-> "nil", req |-> req]
        r1 == first.req
    IN  IF r1.MultipartForm THEN [err |-> "nil", req |-> r1]
        ELSE IF ~HasPrefix(r1.contentType, <<"multipart", "/">>)
             THEN [err |-> "request Content-Type isn't multipart/form-data", req |-> r1]
        ELSE IF ~HasBoundary(r1.contentType)
             THEN [err |-> "no multipart boundary param in Content-Type", req |-> r1]
        ELSE IF ~r1.bodyOK THEN [err |-> "ParseError", req |-> r1]
        ELSE [err |-> first.err,
              req |-> [r1 EXCEPT !.MultipartForm = TRUE,
                                 !.Form = [nil |-> FALSE, values |-> r1.Form.values \o r1.post],
                                 !.PostForm = [nil |-> FALSE, values |-> r1.PostForm.values \o r1.post]]]

\* http.Request.PostFormValue parses the body on first use, ignoring errors
PostFormParsed(req) ==
    IF req.PostForm.nil THEN ParseMultipartFormOn(req, defaultMemory).req ELSE req

\* ------------------------------------------------------ parameter readers

\* a reader that gives 0, not the default, for a value that does not parse
IntOrZero(value, defaultValue) ==
    IF value = <<>> THEN defaultValue
    ELSE IF Atoi(value).err # "nil" THEN 0
    ELSE Atoi(value).n

IntOrDefault(value, defaultValue) ==
    IF value = <<>> THEN defaultValue
    ELSE IF Atoi(value).err # "nil" THEN defaultValue
    ELSE Atoi(value).n

QueryIntResult(req, key, defaultValue) ==
    IntOrDefault(ValuesGet(req.query, key), defaultValue)

PostIntResult(req, key, defaultValue) ==
    IntOrDefault(ValuesGet(PostFormParsed(req).PostForm.values, key), defaultValue)

FormParamsParser(req) ==
    IF HasPrefix(req.contentType, MIMEMultipartPOSTForm)
    THEN [f |-> "ParseMultipartForm", maxMemory |-> defaultMemory]
    ELSE [f |-> "ParseForm"]

ParserOutcome(req, call) ==
    IF call.f = "ParseMultipartForm" THEN ParseMultipartFormOn(req, call.maxMemory)
    ELSE ParseFormOn(req)

FormParamsCalls(req) ==
    << [parser |-> FormParamsParser(req),
        err |-> ParserOutcome(req, FormParamsParser(req)).err] >>

\* FormParams handing out the form although the parser failed
FormParamsResultKeepsForm(req) ==
    LET out == ParserOutcome(req, FormParamsParser(req))
    IN  [form |-> out.req.Form, err |-> out.err]

FormParamsResult(req) ==
    LET out == ParserOutcome(req, FormParamsParser(req))
    IN  IF out.err # "nil" THEN [form |-> NilForm, err |-> out.err]
        ELSE [form |-> out.req.Form, err |-> "nil"]

readerFrame == <<response, path, handler, logger, requestCache, pre, firstCT, routed, nops, conn>>

QueryInt ==
    \E key \in ParamKeys, d \in Defaults :
        /\ Bound
        /\ op' = [name |-> "QueryInt", key |-> key, defaultValue |-> d]
        /\ ret' = QueryIntResult(request, key, d)
        /\ calls' = <<>>
        /\ UNCHANGED request
        /\ UNCHANGED readerFrame

PostInt ==
    \E key \in ParamKeys, d \in Defaults :
        /\ Bound
        /\ op' = [name |-> "PostInt", key |-> key, defaultValue |-> d]
        /\ ret' = PostIntResult(request, key, d)
        /\ calls' = <<>>
        /\ request' = PostFormParsed(request)
        /\ UNCHANGED readerFrame

FormParams ==
    /\ Bound
    /\ op' = [name |-> "FormParams"]
    /\ ret' = FormParamsResult(request)
    /\ calls' = FormParamsCalls(request)
    /\ request' = ParserOutcome(request, FormParamsParser(request)).req
    /\ UNCHANGED readerFrame

\* a context that Reset has bound to a request, one of ReaderRequests
InitReaders ==
    /\ request \in ReaderRequests
    /\ response = ResponseReset("wA")
    /\ path = ""
    /\ handler = NotFoundHandler
    /\ logger = "logA"
    /\ requestCache = "cacheA"
    /\ op = [name |-> "Reset"]
    /\ ret = "nil"
    /\ calls = <<>>
    /\ pre = [request |-> NilRequest]
    /\ firstCT = ""
    /\ routed = FALSE
    /\ nops = 0
    /\ conn = "nil"

NextReaders ==
    \/ QueryInt
    \/ PostInt
    \/ FormParams

SpecReaders == InitReaders /\ [][NextReaders]_vars


\* ================================================================== claims

ContentTypeOf(resp) == resp.Header[HeaderContentType]
LocationOf(resp) == resp.Header[HeaderLocation]
CallNames == [i \in 1..Len(calls) |-> calls[i].f]

\* C1: Redirect(code, url) with 300 <= code <= 308 returns no error, sets
\* Location to exactly url and then writes the status line with code; with any
\* other code it returns an error, sets no header and writes no status line.
C1_Redirect ==
    op.name = "Redirect" =>
        IF 300 <= op.code /\ op.code <= 308
        THEN /\ ret = "nil"
             /\ LocationOf(response) = op.url
             /\ calls = << [f |-> "Header.Set", key |-> "Location", value |-> op.url],
                           [f |-> "WriteHeader", code |-> op.code] >>
             /\ response.Committed
             /\ ~pre.response.Committed => response.Status = op.code
        ELSE /\ ret # "nil"
             /\ calls = <<>>
             /\ response = pre.response

\* an out-of-range Redirect on a response an earlier Redirect has written to
C1_Witness ==
    /\ op.name = "Redirect"
    /\ op.code = 309
    /\ pre.op.name = "Redirect"
    /\ pre.op.code = 308
    /\ LocationOf(response) # ""
    /\ LocationOf(response) # op.url

\* C2: after Reset nothing of the previous request is observable: the path is
\* empty, the handler is the not-found handler, request, logger and cache are
\* the new arguments, and the response has no header, status or written flag.
C2_ResetLeaksNothing ==
    op.name = "Reset" =>
        /\ path = ""
        /\ handler = NotFoundHandler
        /\ request = op.r
        /\ logger = op.logger
        /\ requestCache = op.cache
        /\ response.Writer = op.w
        /\ response.Header = NoHeader
        /\ response.Status = 0
        /\ ~response.Committed
        /\ response.Body = <<>>

\* a Reset for another request after a routed request that wrote a response
C2_Witness ==
    /\ op.name = "Reset"
    /\ pre.request.id \notin {"nil", request.id}
    /\ pre.path # ""
    /\ pre.handler # NotFoundHandler
    /\ pre.response.Committed
    /\ ContentTypeOf(pre.response) # ""
    /\ pre.response.Body # <<>>

\* C3: WriteContentType is first-writer-wins: the header is the first non-empty
\* value supplied (firstCT records it), a second call with another value
\* changes nothing, and a value the handler set is not overwritten.
C3_FirstWriterWins ==
    /\ Bound => ContentTypeOf(response) = firstCT
    /\ (op.name = "WriteContentType" /\ ContentTypeOf(pre.response) # "")
           => ContentTypeOf(response) = ContentTypeOf(pre.response)
    /\ (op.name = "WriteContentType" /\ ContentTypeOf(pre.response) = "")
           => ContentTypeOf(response) = op.value

\* WriteContentType(v1) on a fresh response, then WriteContentType(v2), v2 # v1
C3_Witness ==
    /\ op.name = "WriteContentType"
    /\ pre.op.name = "WriteContentType"
    /\ nops = 2
    /\ pre.op.value # ""
    /\ op.value \notin {"", pre.op.value}
    /\ ContentTypeOf(response) = pre.op.value

\* C4: once a writer has written the status and the Content-Type, no later
\* Blob, String, Json, Redirect or WriteContentType changes the recorded
\* status code or the Content-Type.
C4_WrittenIsImmutable ==
    ( /\ op.name \in {"Blob", "String", "Json", "Redirect", "WriteContentType"}
      /\ pre.response.Committed
      /\ ContentTypeOf(pre.response) # "" )
    => /\ response.Status = pre.response.Status
       /\ ContentTypeOf(response) = ContentTypeOf(pre.response)

\* C5: the handler of a context that Reset has bound is never nil, and it is
\* the not-found handler while no route has been set since the last Reset.
C5_HandlerNeverNil ==
    Bound => /\ handler # NilHandler
             /\ ~routed => handler = NotFoundHandler

\* a second Reset, after a request whose route was matched
C5_Witness ==
    /\ op.name = "Reset"
    /\ pre.handler \in RouteHandlers
    /\ ~routed

\* the decimal spelling of an integer
RECURSIVE Natural(_)
Natural(n) == IF n < 10 THEN <<Digits[n + 1]>> ELSE Append(Natural(n \div 10), Digits[(n % 10) + 1])
Itoa(n) == IF n < 0 THEN <<"-">> \o Natural(0 - n) ELSE Natural(n)
IntsSpelled == (0 - (10 ^ MaxLen))..(10 ^ MaxLen)
\* the integers a parameter value spells, none or one
Spelled == [s \in ParamValues |-> {n \in IntsSpelled : Itoa(n) = s}]
FirstValue(pairs, key) ==
    LET at == {i \in 1..Len(pairs) : pairs[i].k = key}
    IN  IF at = {} THEN <<>> ELSE pairs[CHOOSE i \in at : \A j \in at : i <= j].v
Expected(value, d) == IF Spelled[value] = {} THEN d ELSE CHOOSE n \in Spelled[value] : TRUE

\* C6: QueryInt(key, d) and PostInt(key, d) return d when the key is absent,
\* when its first value is empty and when it spells no integer, and the
\* integer it spells otherwise.
C6_IntOrDefault ==
    /\ op.name = "QueryInt" =>
           ret = Expected(FirstValue(request.query, op.key), op.defaultValue)
    /\ op.name = "PostInt" =>
           /\ ~request.PostForm.nil
           /\ ret = Expected(FirstValue(request.PostForm.values, op.key), op.defaultValue)

\* QueryInt on a key whose first value starts with a digit and is no integer
C6_Witness ==
    /\ op.name = "QueryInt"
    /\ FirstValue(request.query, op.key) = <<"7", "a">>
    /\ ret = op.defaultValue
    /\ ret = 5

BytesGiven == IF op.name = "Blob" THEN op.data ELSE StringBytes(op.value)

\* C7: Blob (and String) hands its bytes to the response once, unchanged, and
\* returns nil when the write succeeds; when the write fails it returns the
\* error of the write.
C7_BlobWrites ==
    op.name \in {"Blob", "String"} =>
        /\ Cardinality({i \in 1..Len(calls) : calls[i].f = "Write"}) = 1
        /\ \A i \in 1..Len(calls) : calls[i].f = "Write" => calls[i].data = BytesGiven
        /\ pre.conn = "nil" => /\ ret = "nil"
                               /\ response.Body = pre.response.Body \o BytesGiven
        /\ pre.conn # "nil" => /\ ret = pre.conn
                               /\ response.Body = pre.response.Body

\* a Blob that fails on the connection after an earlier write went through
C7_Witness ==
    /\ op.name = "Blob"
    /\ op.data # <<>>
    /\ ret = "broken pipe"
    /\ pre.response.Body # <<>>

\* C8: FormParams runs multipart parsing with a threshold of 33,554,432 bytes
\* when the request's Content-Type starts with multipart/form-data and
\* URL-encoded parsing otherwise; it returns the parser's error with a nil
\* mapping, and the request's form with a nil error only when parsing succeeds.
C8_FormParams ==
    op.name = "FormParams" =>
        LET ct == request.contentType
            multipart == /\ Len(ct) >= 3
                         /\ ct[1] = "multipart" /\ ct[2] = "/" /\ ct[3] = "form-data"
        IN  /\ Len(calls) = 1
            /\ calls[1].parser = IF multipart
                                 THEN [f |-> "ParseMultipartForm", maxMemory |-> 33554432]
                                 ELSE [f |-> "ParseForm"]
            /\ calls[1].err # "nil" => ret = [form |-> NilForm, err |-> calls[1].err]
            /\ calls[1].err = "nil" => /\ ret = [form |-> request.Form, err |-> "nil"]
                                       /\ ~request.Form.nil

\* FormParams on a multipart request whose parsing fails after part of the
\* form was filled in
C8_Witness ==
    /\ op.name = "FormParams"
    /\ calls[1].parser.f = "ParseMultipartForm"
    /\ ret.err # "nil"
    /\ ret.form = NilForm
    /\ ~request.Form.nil
    /\ request.Form.values # <<>>

\* C9: Json on a response with no Content-Type sets the JSON charset type and
\* stores code in Status before it encodes (encoding is the response as Encode
\* finds it: nothing written yet), never calls WriteHeader, and leaves a
\* Content-Type that is already set.
C9_Json ==
    op.name = "Json" =>
        LET encoding == Run(pre.response, SubSeq(calls, 1, Len(calls) - 1))
        IN  /\ CallNames = <<"WriteContentType", "Status=", "Encode">>
            /\ encoding.Status = op.code
            /\ encoding.Body = pre.response.Body
            /\ encoding.Committed = pre.response.Committed
            /\ ContentTypeOf(pre.response) = ""
                   => /\ ContentTypeOf(encoding) = "application/json; charset=UTF-8"
                      /\ ContentTypeOf(response) = "application/json; charset=UTF-8"
            /\ ContentTypeOf(pre.response) # ""
                   => ContentTypeOf(response) = ContentTypeOf(pre.response)

\* Json with a new code on a response whose status line is already written
C9_Witness ==
    /\ op.name = "Json"
    /\ ret = "nil"
    /\ pre.response.Committed
    /\ pre.response.Status # op.code
    /\ ContentTypeOf(pre.response) = ""
    /\ response.Body # pre.response.Body

BlobContentType == IF op.name = "Blob" THEN op.contentType ELSE "text/plain; charset=UTF-8"

\* C10 as claimed: Blob writes the status line, then ensures the Content-Type,
\* then writes; on a response with no Content-Type it leaves Content-Type
\* contentType and status code.
C10_BlobCarriesCode ==
    (op.name \in {"Blob", "String"} /\ ContentTypeOf(pre.response) = "")
    => /\ ContentTypeOf(response) = BlobContentType
       /\ response.Status = op.code

\* C10 amended: the three calls are made in that order; on a response with no
\* Content-Type the Content-Type becomes contentType; and the status is code
\* when no status line was written before.
C10_BlobOrder ==
    op.name \in {"Blob", "String"} =>
        /\ CallNames = <<"WriteHeader", "WriteContentType", "Write">>
        /\ calls[1].code = op.code
        /\ calls[2].value = BlobContentType
        /\ ContentTypeOf(pre.response) = "" => ContentTypeOf(response) = BlobContentType
        /\ ContentTypeOf(pre.response) # ""
               => ContentTypeOf(response) = ContentTypeOf(pre.response)
        /\ ~pre.response.Committed => response.Status = op.code /\ response.Committed
        /\ pre.response.Committed => response.Status = pre.response.Status

\* a Blob on a response a Redirect has written the status line of
C10_Witness ==
    /\ op.name = "Blob"
    /\ pre.op.name = "Redirect"
    /\ pre.response.Committed
    /\ op.contentType # ""
    /\ ContentTypeOf(response) = op.contentType
    /\ response.Status # op.code

====
